---- MODULE Spec2Model ----
(***************************************************************************)
(* Model of src/flesch.py: the Flesch analyzer.  A document is a sequence  *)
(* of characters (one-character strings); the seven non-ASCII letters of   *)
(* the source's character classes are written as the tokens                *)
(*   "Ae" "Oe" "Ue" "ae" "oe" "ue" "sz"   for   Ä Ö Ü ä ö ü ß              *)
(* each token standing for ONE character of the document.                  *)
(***************************************************************************)
EXTENDS Integers, Sequences, FiniteSets, TLC

VARIABLES
    pc,            \* "new" before Flesch(filename, lang), then "ready" or "failed"
    file,          \* the text of the file `filename` names
    file_ok,       \* whether open(filename, 'r') succeeds
    lang_arg,      \* the lang argument of the constructor
    n_opens,       \* number of times the constructor reached open()
    error,         \* the exception the last call raised ("" if none)
    lang,          \* self.lang
    hyphenation,   \* self.hyphenation: the Hyphenator (locale and its syllables())
    content,       \* self.content
    words,         \* self.words
    n_sentences,   \* self.n_sentences
    n_words,       \* self.n_words
    n_syllables,   \* self.n_syllables
    ret,           \* the outcome of the last method call
    ease_log       \* the outcomes of the calls of calc_reading_ease, in order

vars == <<pc, file, file_ok, lang_arg, n_opens, error, lang, hyphenation,
          content, words, n_sentences, n_words, n_syllables, ret, ease_log>>

fields == <<lang, hyphenation, content, words, n_sentences, n_words, n_syllables>>

-----------------------------------------------------------------------------
(* Bounds of the model *)

MaxLen == 4          \* longest document of the exhaustive set BoundedDocs
MaxSegments == 2     \* longest list hyphenation.syllables(word) returns
MaxSentences == 2    \* sentences of a generated document
MaxRepeat == 8       \* filler words of a generated document
MaxCalls == 2        \* calls of calc_reading_ease that are logged

-----------------------------------------------------------------------------
(* Character classes of the two regular expressions *)

AsciiUpper == {"A","B","C","D","E","F","G","H","I","J","K","L","M",
               "N","O","P","Q","R","S","T","U","V","W","X","Y","Z"}

AsciiLower == {"a","b","c","d","e","f","g","h","i","j","k","l","m",
               "n","o","p","q","r","s","t","u","v","w","x","y","z"}

\* the class without the German letters: [a-zA-Z]
WordCharAscii == AsciiLower \cup AsciiUpper

\* [a-zA-ZäöüÄÖÜß]
WordChar == AsciiLower \cup AsciiUpper \cup {"ae","oe","ue","Ae","Oe","Ue","sz"}

\* [A-ZÄÖÜ]
SentenceStart == AsciiUpper \cup {"Ae","Oe","Ue"}

\* [.:!?]
Terminal == {".", ":", "!", "?"}

\* \s: the whitespace characters a TLA+ string can hold (Python's \s also
\* takes the vertical tab and the other Unicode spaces)
Whitespace == {" ", "\t", "\n", "\r", "\f"}

\* what `.` matches without re.DOTALL: any character but the line feed
Dot(c) == c # "\n"

-----------------------------------------------------------------------------
(* re.findall(r'[a-zA-ZäöüÄÖÜß]+', content): scan left to right; at a      *)
(* position holding a class character the greedy + takes every following   *)
(* class character, the match is emitted and the scan resumes behind it.   *)

RECURSIVE GreedyEnd(_, _)
GreedyEnd(s, j) ==
    IF j + 1 <= Len(s) /\ s[j + 1] \in WordChar THEN GreedyEnd(s, j + 1) ELSE j

RECURSIVE FindWordsFrom(_, _)
FindWordsFrom(s, i) ==
    IF i > Len(s) THEN << >>
    ELSE IF s[i] \in WordChar
         THEN LET j == GreedyEnd(s, i)
              IN  <<SubSeq(s, i, j)>> \o FindWordsFrom(s, j + 1)
         ELSE FindWordsFrom(s, i + 1)

FindWords(s) == FindWordsFrom(s, 1)

(* re.findall(r'[A-ZÄÖÜ].*?([.:!?]\s)', content): at a position holding a  *)
(* sentence-start character the lazy .*? first tries to match the group    *)
(* where it stands and otherwise consumes one more character, which `.`    *)
(* must match; LazyEnd is the index of the \s character, 0 if the attempt  *)
(* fails.  findall returns the group of each match.                        *)

\* a lazy match that also takes a terminal mark at the end of the text
RECURSIVE LazyEndOrEof(_, _)
LazyEndOrEof(s, j) ==
    IF j > Len(s) THEN 0
    ELSE IF s[j] \in Terminal /\ j = Len(s) THEN j
    ELSE IF j < Len(s) /\ s[j] \in Terminal /\ s[j + 1] \in Whitespace THEN j + 1
    ELSE IF Dot(s[j]) THEN LazyEndOrEof(s, j + 1)
    ELSE 0

RECURSIVE LazyEnd(_, _)
LazyEnd(s, j) ==
    IF j + 1 > Len(s) THEN 0
    ELSE IF s[j] \in Terminal /\ s[j + 1] \in Whitespace THEN j + 1
    ELSE IF Dot(s[j]) THEN LazyEnd(s, j + 1)
    ELSE 0

\* a scan that resumes one character behind the start of a match
RECURSIVE FindSentencesOverlapping(_, _)
FindSentencesOverlapping(s, i) ==
    IF i > Len(s) THEN << >>
    ELSE IF s[i] \in SentenceStart /\ LazyEnd(s, i + 1) # 0
         THEN LET e == LazyEnd(s, i + 1)
              IN  <<SubSeq(s, e - 1, e)>> \o FindSentencesOverlapping(s, i + 1)
         ELSE FindSentencesOverlapping(s, i + 1)

RECURSIVE FindSentencesFrom(_, _)
FindSentencesFrom(s, i) ==
    IF i > Len(s) THEN << >>
    ELSE IF s[i] \in SentenceStart /\ LazyEnd(s, i + 1) # 0
         THEN LET e == LazyEnd(s, i + 1)
              IN  <<SubSeq(s, e - 1, e)>> \o FindSentencesFrom(s, e + 1)
         ELSE FindSentencesFrom(s, i + 1)

FindSentences(s) == FindSentencesFrom(s, 1)

-----------------------------------------------------------------------------
(* The methods' return values *)

\* count_words
count_words_val == Len(words)

\* count_sentences
count_sentences_val == Len(FindSentences(content))

\* the length of the list, without the empty-list case
count_word_syllables_len(syllables, word) == Len(syllables[word])

\* count_word_syllables(word), given the Hyphenator's syllables()
count_word_syllables_val(syllables, word) ==
    LET n == Len(syllables[word])
    IN  IF n = 0 THEN 1 ELSE n

\* sum(map(self.count_word_syllables, self.words))
RECURSIVE SumSyllables(_, _, _)
SumSyllables(syllables, ws, i) ==
    IF i > Len(ws) THEN 0
    ELSE count_word_syllables_val(syllables, ws[i]) + SumSyllables(syllables, ws, i + 1)

count_syllables_val(syllables, ws) == SumSyllables(syllables, ws, 1)

-----------------------------------------------------------------------------
(* Python float arithmetic (IEEE 754 binary64, round to nearest, ties to   *)
(* even).  A float is [neg, m, e], the number (-1)^neg * m * 2^e, with the *)
(* magnitude m a natural number held as a little-endian sequence of limbs  *)
(* in base 2^15 (<< >> is 0).  Every operation computes the exact result   *)
(* and rounds it to 53 significant bits.                                   *)

LimbBase == 32768
LimbBits == 15
Precision == 53          \* significant bits of a binary64
DivGuardBits == 75       \* quotient bits computed before rounding a division

Limb(a, i) == IF i <= Len(a) THEN a[i] ELSE 0

RECURSIVE BigNorm(_)
BigNorm(a) ==
    IF a # << >> /\ a[Len(a)] = 0 THEN BigNorm(SubSeq(a, 1, Len(a) - 1)) ELSE a

RECURSIVE BigFromInt(_)
BigFromInt(n) ==
    IF n = 0 THEN << >> ELSE <<n % LimbBase>> \o BigFromInt(n \div LimbBase)

RECURSIVE BigToInt(_)
BigToInt(a) ==
    IF a = << >> THEN 0 ELSE a[1] + LimbBase * BigToInt(Tail(a))

RECURSIVE BigAddFrom(_, _, _, _)
BigAddFrom(a, b, i, c) ==
    IF i > Len(a) /\ i > Len(b)
    THEN IF c = 0 THEN << >> ELSE <<c>>
    ELSE LET t == Limb(a, i) + Limb(b, i) + c
         IN  <<t % LimbBase>> \o BigAddFrom(a, b, i + 1, t \div LimbBase)

BigAdd(a, b) == BigAddFrom(a, b, 1, 0)

\* a - b for a >= b
RECURSIVE BigSubFrom(_, _, _, _)
BigSubFrom(a, b, i, c) ==
    IF i > Len(a) THEN << >>
    ELSE LET t == a[i] - Limb(b, i) - c
         IN  IF t < 0 THEN <<t + LimbBase>> \o BigSubFrom(a, b, i + 1, 1)
                      ELSE <<t>> \o BigSubFrom(a, b, i + 1, 0)

BigSub(a, b) == BigNorm(BigSubFrom(a, b, 1, 0))

\* a < b, for normalised a and b
RECURSIVE BigLessFrom(_, _, _)
BigLessFrom(a, b, i) ==
    IF i = 0 THEN FALSE
    ELSE IF a[i] # b[i] THEN a[i] < b[i]
    ELSE BigLessFrom(a, b, i - 1)

BigLess(a, b) ==
    IF Len(a) # Len(b) THEN Len(a) < Len(b) ELSE BigLessFrom(a, b, Len(a))

\* a * k for 0 <= k < 2^15
RECURSIVE BigMulSmallFrom(_, _, _, _)
BigMulSmallFrom(a, k, i, c) ==
    IF i > Len(a)
    THEN IF c = 0 THEN << >> ELSE <<c>>
    ELSE LET t == a[i] * k + c
         IN  <<t % LimbBase>> \o BigMulSmallFrom(a, k, i + 1, t \div LimbBase)

BigMulSmall(a, k) == BigNorm(BigMulSmallFrom(a, k, 1, 0))

RECURSIVE BigMulFrom(_, _, _)
BigMulFrom(a, b, i) ==
    IF i > Len(b) THEN << >>
    ELSE BigAdd(BigMulSmallFrom(a, b[i], 1, 0), <<0>> \o BigMulFrom(a, b, i + 1))

BigMul(a, b) == BigNorm(BigMulFrom(a, b, 1))

\* quotient and remainder of a by k, 0 < k < 2^16, from the top limb down
RECURSIVE BigDivSmallFrom(_, _, _, _)
BigDivSmallFrom(a, k, i, r) ==
    IF i = 0 THEN [q |-> << >>, r |-> r]
    ELSE LET cur  == r * LimbBase + a[i]
             rest == BigDivSmallFrom(a, k, i - 1, cur % k)
         IN  [q |-> Append(rest.q, cur \div k), r |-> rest.r]

BigDivSmall(a, k) ==
    LET d == BigDivSmallFrom(a, k, Len(a), 0)
    IN  [q |-> BigNorm(d.q), r |-> d.r]

RECURSIVE Pow2(_)
Pow2(n) == IF n = 0 THEN 1 ELSE 2 * Pow2(n - 1)

RECURSIVE SmallBits(_)
SmallBits(n) == IF n = 0 THEN 0 ELSE 1 + SmallBits(n \div 2)

BitLength(a) ==
    IF a = << >> THEN 0 ELSE (Len(a) - 1) * LimbBits + SmallBits(a[Len(a)])

Zeros(n) == [i \in 1..n |-> 0]

\* a * 2^n
ShiftLeft(a, n) ==
    IF a = << >> THEN << >>
    ELSE BigMulSmall(Zeros(n \div LimbBits) \o a, Pow2(n % LimbBits))

\* floor(a / 2^n), and whether a nonzero part was dropped
ShiftRight(a, n) ==
    LET drop == n \div LimbBits
        low  == SubSeq(a, 1, IF drop < Len(a) THEN drop ELSE Len(a))
        high == SubSeq(a, drop + 1, Len(a))
        d    == BigDivSmall(high, Pow2(n % LimbBits))
    IN  [q |-> d.q, inexact |-> (d.r # 0 \/ low # Zeros(Len(low)))]

\* a / 2^n (n >= 1) rounded to the nearest integer, ties to the even one
RoundShift(a, n) ==
    LET t     == ShiftRight(a, n - 1)
        round == Limb(t.q, 1) % 2
        q     == ShiftRight(t.q, 1).q
        up    == round = 1 /\ (t.inexact \/ Limb(q, 1) % 2 = 1)
    IN  IF up THEN BigAdd(q, <<1>>) ELSE q

\* the binary64 nearest to (-1)^neg * m * 2^e
RoundToDouble(neg, m, e) ==
    LET n == BitLength(m) - Precision
    IN  IF n <= 0 THEN [neg |-> neg, m |-> m, e |-> e]
        ELSE [neg |-> neg, m |-> RoundShift(m, n), e |-> e + n]

\* a / b for integers 0 <= a, 0 < b: Python's int / int, and the value of a
\* decimal literal a/b (206.835 is 206835/1000).  The remainder enters as a
\* sticky bit below the rounding position.
FloatDiv(a, b) ==
    LET d == BigDivSmall(ShiftLeft(BigFromInt(a), DivGuardBits), b)
        m == BigAdd(BigMulSmall(d.q, 2), IF d.r = 0 THEN << >> ELSE <<1>>)
    IN  RoundToDouble(FALSE, m, 0 - DivGuardBits - 1)

FloatMul(x, y) == RoundToDouble(x.neg # y.neg, BigMul(x.m, y.m), x.e + y.e)

FloatSub(x, y) ==
    LET e  == IF x.e < y.e THEN x.e ELSE y.e
        mx == ShiftLeft(x.m, x.e - e)
        my == ShiftLeft(y.m, y.e - e)
    IN  IF x.neg # y.neg THEN RoundToDouble(x.neg, BigAdd(mx, my), e)
        ELSE IF BigLess(mx, my) THEN RoundToDouble(~x.neg, BigSub(my, mx), e)
        ELSE RoundToDouble(x.neg, BigSub(mx, my), e)

\* int(round(x)): Python 3 rounds a float to the nearest integer, ties to even
PyRound(x) ==
    LET mag == IF x.e >= 0 THEN ShiftLeft(x.m, x.e) ELSE RoundShift(x.m, 0 - x.e)
    IN  IF x.neg THEN 0 - BigToInt(mag) ELSE BigToInt(mag)

\* the float literals of the two formulas
Float206_835 == FloatDiv(206835, 1000)
Float1_015 == FloatDiv(1015, 1000)
Float84_6 == FloatDiv(846, 10)
Float180 == FloatDiv(180, 1)
Float58_5 == FloatDiv(585, 10)

\* calc_reading_ease_en(asl, asw)
calc_reading_ease_en(asl, asw) ==
    PyRound(FloatSub(FloatSub(Float206_835, FloatMul(Float1_015, asl)),
                     FloatMul(Float84_6, asw)))

\* calc_reading_ease_de(asl, asw)
calc_reading_ease_de(asl, asw) ==
    PyRound(FloatSub(FloatSub(Float180, asl), FloatMul(Float58_5, asw)))

-----------------------------------------------------------------------------
(* Inputs *)

\* one character of each kind the two patterns tell apart
Alphabet == {"A", "b", "1", ".", " ", "\n"}

\* every document of at most MaxLen characters over Alphabet
BoundedDocs == UNION {[1..n -> Alphabet] : n \in 0..MaxLen}

\* "The cat sat. The dog ran fast."
Scenario1 == <<"T","h","e"," ","c","a","t"," ","s","a","t","."," ",
               "T","h","e"," ","d","o","g"," ","r","a","n"," ","f","a","s","t",".">>

\* "Über die Brücke.\n"
Scenario2 == <<"Ue","b","e","r"," ","d","i","e"," ","B","r","ue","c","k","e",".","\n">>

\* "Die Straße ist groß!\n"
Scenario3 == <<"D","i","e"," ","S","t","r","a","sz","e"," ","i","s","t"," ",
               "g","r","o","sz","!","\n">>

ScenarioDocs == {Scenario1, Scenario2, Scenario3}

RECURSIVE Repeat(_, _)
Repeat(s, n) == IF n = 0 THEN << >> ELSE s \o Repeat(s, n - 1)

\* "A b ... b. A. ... A. ": s sentences holding s + nb words; without a
\* sentence "b b ... b ", the empty document when nb = 0
CountDoc(s, nb) ==
    IF s = 0 THEN Repeat(<<"b", " ">>, nb)
    ELSE <<"A">> \o Repeat(<<" ", "b">>, nb) \o <<".", " ">>
                \o Repeat(<<"A", ".", " ">>, s - 1)

CountDocs == {CountDoc(s, nb) : s \in 0..MaxSentences, nb \in 0..MaxRepeat}

\* a sentence: an uppercase letter, a body without terminal punctuation, a
\* terminal punctuation mark
SentenceBodies == {<< >>, <<"b">>, <<" ">>, <<"\n">>}

Sentences == {<<"A">> \o body \o <<t>> : body \in SentenceBodies, t \in {".", "?"}}

\* k sentences, consecutive ones separated by one whitespace character, no
\* whitespace after the last
RECURSIVE SentenceDocs(_)
SentenceDocs(k) ==
    IF k = 1 THEN Sentences
    ELSE {d \o <<w>> \o s : d \in SentenceDocs(k - 1), w \in {" ", "\n"}, s \in Sentences}

\* the same with one whitespace character appended
SentenceDocsSpaced(k) == {d \o <<w>> : d \in SentenceDocs(k), w \in {" ", "\n"}}

AllSentenceDocs ==
    UNION {SentenceDocs(k) \cup SentenceDocsSpaced(k) : k \in 1..MaxSentences}

LangArgs == {"de", "en", "fr", "EN"}

\* the lists hyphenation.syllables(word) may return, by length
SegmentLists == {[i \in 1..k |-> "syllable"] : k \in 0..MaxSegments}

Range(f) == {f[x] : x \in DOMAIN f}

Unset == 0 - 1

NoReturn == [op |-> "", arg |-> << >>, kind |-> "", val |-> 0]

Returned(name, v) == [op |-> name, arg |-> << >>, kind |-> "int", val |-> v]

Raised(name) == [op |-> name, arg |-> << >>, kind |-> "raise", val |-> 0]

InitObject ==
    /\ pc = "new"
    /\ n_opens = 0
    /\ error = ""
    /\ lang = ""
    /\ hyphenation = [locale |-> "", syllables |-> << >>]
    /\ content = << >>
    /\ words = << >>
    /\ n_sentences = Unset
    /\ n_words = Unset
    /\ n_syllables = Unset
    /\ ret = NoReturn
    /\ ease_log = << >>

\* documents generated to reach the counts the score is checked on
Init ==
    /\ InitObject
    /\ lang_arg \in LangArgs
    /\ \/ file_ok = FALSE /\ file = << >>
       \/ file_ok = TRUE /\ file \in CountDocs

\* the documents the text segmentation is checked on
InitDocs ==
    /\ InitObject
    /\ lang_arg \in LangArgs
    /\ \/ file_ok = FALSE /\ file = << >>
       \/ file_ok = TRUE /\ file \in BoundedDocs \cup ScenarioDocs \cup AllSentenceDocs

-----------------------------------------------------------------------------
(* Flesch.__init__(filename, lang) *)

\* the locale of the Hyphenator the constructor builds, "" when it raises
Locale(l) ==
    IF l = "de" THEN "de_DE" ELSE IF l = "en" THEN "en_US" ELSE ""

\* a constructor that opens the file whatever the lang
ReachesOpenAlways(l) == TRUE

\* whether the constructor reaches open() for this lang
ReachesOpen(l) == Locale(l) # ""

InitFails(exception) ==
    /\ pc' = "failed"
    /\ error' = exception
    /\ UNCHANGED <<content, words, n_sentences, n_words, n_syllables, ret,
                   ease_log, file, file_ok, lang_arg>>

Construct ==
    /\ pc = "new"
    /\ IF ~ReachesOpen(lang_arg)
       THEN /\ InitFails("UnsupportedLanguage")
            /\ UNCHANGED <<lang, hyphenation, n_opens>>
       ELSE /\ n_opens' = n_opens + 1
            /\ lang' = lang_arg
            /\ IF ~file_ok
               THEN /\ InitFails("FileAccessError")
                    /\ hyphenation' = [locale |-> Locale(lang_arg), syllables |-> << >>]
               ELSE /\ pc' = "ready"
                    /\ error' = ""
                    /\ content' = file
                    /\ words' = FindWords(content')
                    /\ \E syl \in [Range(words') -> SegmentLists] :
                          hyphenation' = [locale |-> Locale(lang_arg), syllables |-> syl]
                    /\ n_sentences' = Len(FindSentences(content'))
                    /\ n_words' = Len(words')
                    /\ n_syllables' = count_syllables_val(hyphenation'.syllables, words')
                    /\ UNCHANGED <<ret, ease_log, file, file_ok, lang_arg>>

-----------------------------------------------------------------------------
(* The methods of a constructed analyzer *)

Call(outcome) ==
    /\ pc = "ready"
    /\ ret' = outcome
    /\ error' = IF outcome.kind = "raise" THEN "ZeroDivisionError" ELSE ""
    /\ UNCHANGED <<pc, file, file_ok, lang_arg, n_opens>>

count_words ==
    /\ Call(Returned("count_words", count_words_val))
    /\ UNCHANGED <<fields, ease_log>>

count_sentences ==
    /\ Call(Returned("count_sentences", count_sentences_val))
    /\ UNCHANGED <<fields, ease_log>>

count_word_syllables ==
    \E word \in DOMAIN hyphenation.syllables :
        /\ Call([Returned("count_word_syllables",
                           count_word_syllables_val(hyphenation.syllables, word))
                    EXCEPT !.arg = word])
        /\ UNCHANGED <<fields, ease_log>>

\* a count_syllables that adds its sum to self.n_syllables
count_syllables_storing ==
    /\ Call(Returned("count_syllables",
                     count_syllables_val(hyphenation.syllables, words)))
    /\ n_syllables' = n_syllables + ret'.val
    /\ UNCHANGED <<lang, hyphenation, content, words, n_sentences, n_words, ease_log>>

count_syllables ==
    /\ Call(Returned("count_syllables",
                     count_syllables_val(hyphenation.syllables, words)))
    /\ UNCHANGED <<fields, ease_log>>

\* an outcome that takes an average over nothing as 0
ReadingEaseZero(l, s, w, y) ==
    LET asl == FloatDiv(IF s = 0 THEN 0 ELSE w, IF s = 0 THEN 1 ELSE s)
        asw == FloatDiv(IF w = 0 THEN 0 ELSE y, IF w = 0 THEN 1 ELSE w)
    IN  IF l = "de" THEN Returned("calc_reading_ease", calc_reading_ease_de(asl, asw))
        ELSE Returned("calc_reading_ease", calc_reading_ease_en(asl, asw))

\* an outcome with the two languages' formulas exchanged
ReadingEaseSwapped(l, s, w, y) ==
    IF s = 0 \/ w = 0 THEN Raised("calc_reading_ease")
    ELSE LET asl == FloatDiv(w, s)
             asw == FloatDiv(y, w)
         IN  IF l = "de" THEN Returned("calc_reading_ease", calc_reading_ease_en(asl, asw))
             ELSE Returned("calc_reading_ease", calc_reading_ease_de(asl, asw))

\* the outcome of calc_reading_ease on counts s, w, y and language l
ReadingEase(l, s, w, y) ==
    IF s = 0 \/ w = 0 THEN Raised("calc_reading_ease")
    ELSE LET asl == FloatDiv(w, s)
             asw == FloatDiv(y, w)
         IN  IF l = "de" THEN Returned("calc_reading_ease", calc_reading_ease_de(asl, asw))
             ELSE IF l = "en" THEN Returned("calc_reading_ease", calc_reading_ease_en(asl, asw))
             ELSE [op |-> "calc_reading_ease", arg |-> << >>, kind |-> "none", val |-> 0]

calc_reading_ease ==
    /\ Call(ReadingEase(lang, n_sentences, n_words, n_syllables))
    /\ Len(ease_log) < MaxCalls
    /\ ease_log' = Append(ease_log, ret')
    /\ UNCHANGED fields

Next ==
    \/ Construct
    \/ count_words
    \/ count_sentences
    \/ count_word_syllables
    \/ count_syllables
    \/ calc_reading_ease

Spec == Init /\ [][Next]_vars

\* construction and the two text counts, over the documents of InitDocs
NextDocs ==
    \/ Construct
    \/ count_words
    \/ count_sentences

SpecDocs == InitDocs /\ [][NextDocs]_vars

-----------------------------------------------------------------------------
(* Properties *)

Ready == pc = "ready"

Eased == Ready /\ ret.op = "calc_reading_ease"

\* C1: a constructor call with a language code other than 'en' or 'de' fails
\* with the unsupported-language error without ever reaching open(), and
\* leaves no content, word list or counts behind.
C1_UnsupportedLanguageBeforeIO ==
    (pc # "new" /\ lang_arg \notin {"en", "de"}) =>
        /\ pc = "failed"
        /\ error = "UnsupportedLanguage"
        /\ n_opens = 0
        /\ content = << >> /\ words = << >>
        /\ n_sentences = Unset /\ n_words = Unset /\ n_syllables = Unset

\* a construction with "fr" has failed although the file was there to read
C1_Witness ==
    pc = "failed" /\ lang_arg = "fr" /\ file_ok /\ file # << >> /\ n_opens = 0

\* C2: on an analyzer whose sentence count or word count is zero,
\* calc_reading_ease raises ZeroDivisionError and returns no number.
C2_DegenerateRaises ==
    (Eased /\ (n_sentences = 0 \/ n_words = 0)) =>
        ret.kind = "raise" /\ error = "ZeroDivisionError"

\* calc_reading_ease has raised on the empty document
C2_Witness ==
    Eased /\ content = << >> /\ n_words = 0 /\ n_sentences = 0 /\ ret.kind = "raise"

\* The formula in exact arithmetic, as the fraction ExactNum / ExactDen:
\*   en: 206.835 - 1.015 * w/s - 84.6 * y/w      de: 180 - w/s - 58.5 * y/w
ExactNum(l, s, w, y) ==
    IF l = "en" THEN 206835 * s * w - 1015 * w * w - 84600 * y * s
                ELSE 1800 * s * w - 10 * w * w - 585 * y * s

ExactDen(l, s, w) == IF l = "en" THEN 1000 * s * w ELSE 10 * s * w

\* n / d (d > 0) rounded to the nearest integer, ties to the even one
RoundHalfEven(n, d) ==
    LET q == n \div d
        r == n % d
    IN  IF 2 * r < d THEN q
        ELSE IF 2 * r > d THEN q + 1
        ELSE IF q % 2 = 0 THEN q ELSE q + 1

ExactTie(l, s, w, y) == 2 * (ExactNum(l, s, w, y) % ExactDen(l, s, w)) = ExactDen(l, s, w)

Abs(n) == IF n < 0 THEN 0 - n ELSE n

\* C3 as stated: the score is the language's formula in exact arithmetic,
\* rounded to the nearest integer with ties to even.
C3_ExactHalfEven ==
    (Eased /\ ret.kind = "int") =>
        ret.val = RoundHalfEven(ExactNum(lang, n_sentences, n_words, n_syllables),
                                ExactDen(lang, n_sentences, n_words))

\* C3 amended: with s >= 1 and w >= 1 the score is an integer nearest to the
\* exact value of the analyzer's own language's formula (at most 1/2 away),
\* hence the nearest one whenever the exact value is no tie.
C3_NearestInteger ==
    (Eased /\ n_sentences >= 1 /\ n_words >= 1) =>
        /\ ret.kind = "int"
        /\ lang \in {"en", "de"}
        /\ 2 * Abs(ret.val * ExactDen(lang, n_sentences, n_words)
                   - ExactNum(lang, n_sentences, n_words, n_syllables))
              <= ExactDen(lang, n_sentences, n_words)

\* a score has been returned where the exact English value is a tie, and it
\* is the odd neighbour
C3_Witness ==
    /\ Eased /\ ret.kind = "int" /\ lang = "en"
    /\ ExactTie("en", n_sentences, n_words, n_syllables)
    /\ ret.val % 2 = 1

TheCatSat == << <<"T","h","e">>, <<"c","a","t">>, <<"s","a","t">>, <<"T","h","e">>,
                <<"d","o","g">>, <<"r","a","n">>, <<"f","a","s","t">> >>

\* C4 as stated: "The cat sat. The dog ran fast." in English has 2
\* sentences, the words The cat sat The dog ran fast, and 7 words.
C4_TwoSentences ==
    (Ready /\ content = Scenario1 /\ lang = "en") =>
        n_sentences = 2 /\ words = TheCatSat /\ n_words = 7

\* C4 amended: the same document has a sentence count of 1 (no whitespace
\* follows its last full stop), the same word list and 7 words.
C4_OneSentence ==
    (Ready /\ content = Scenario1 /\ lang = "en") =>
        n_sentences = 1 /\ words = TheCatSat /\ n_words = 7

\* the scenario's document has been analysed in English
C4_Witness ==
    Ready /\ content = Scenario1 /\ lang = "en" /\ n_words = 7

\* the letters the claim lists: a-z, A-Z, ä ö ü Ä Ö Ü ß
Letters == AsciiLower \cup AsciiUpper \cup {"ae", "oe", "ue", "Ae", "Oe", "Ue", "sz"}

\* the positions where a maximal run of letters starts, and where it ends
RunStarts(s) ==
    {i \in 1..Len(s) : s[i] \in Letters /\ (i = 1 \/ s[i - 1] \notin Letters)}

RunEnds(s) ==
    {j \in 1..Len(s) : s[j] \in Letters /\ (j = Len(s) \/ s[j + 1] \notin Letters)}

\* the k-th run, left to right: from the k-th start to the k-th end
NthOf(S, k) == CHOOSE i \in S : Cardinality({j \in S : j <= i}) = k

\* C5: the word list is the left-to-right sequence of the maximal runs of
\* letters of the content, spelled as in the content; n_words and
\* count_words() are its length.
C5_MaximalRuns ==
    Ready =>
        /\ Len(words) = Cardinality(RunStarts(content))
        /\ \A k \in 1..Len(words) :
              words[k] = SubSeq(content, NthOf(RunStarts(content), k),
                                         NthOf(RunEnds(content), k))
        /\ n_words = Len(words)
        /\ (ret.op = "count_words" => ret.val = Len(words))

\* "Über die Brücke.\n" has been split into Über, die, Brücke
C5_Witness ==
    /\ Ready /\ content = Scenario2
    /\ words = << <<"Ue","b","e","r">>, <<"d","i","e">>, <<"B","r","ue","c","k","e">> >>
    /\ ret.op = "count_words" /\ ret.val = 3

\* the scan the claim describes: a match begins at an uppercase letter and
\* runs to the first following terminal mark that a whitespace character
\* follows, wherever that is; the scan resumes behind the whitespace
ClaimedEnds(s, i) ==
    {j \in (i + 2)..Len(s) : s[j - 1] \in Terminal /\ s[j] \in Whitespace}

Min(S) == CHOOSE x \in S : \A y \in S : x <= y

RECURSIVE ClaimedMatches(_, _)
ClaimedMatches(s, i) ==
    IF i > Len(s) THEN 0
    ELSE IF s[i] \in SentenceStart /\ ClaimedEnds(s, i) # {}
         THEN 1 + ClaimedMatches(s, Min(ClaimedEnds(s, i)) + 1)
         ELSE ClaimedMatches(s, i + 1)

\* C6 as stated: count_sentences is the number of matches of that scan.
C6_ScanCount ==
    Ready =>
        /\ n_sentences = ClaimedMatches(content, 1)
        /\ (ret.op = "count_sentences" => ret.val = ClaimedMatches(content, 1))

\* the syllables of a word as the claim counts them
ClaimedSyllables(word) ==
    IF hyphenation.syllables[word] = << >> THEN 1 ELSE Len(hyphenation.syllables[word])

Occurrences(word) == Cardinality({i \in 1..Len(words) : words[i] = word})

RECURSIVE SumOver(_, _)
SumOver(S, f) ==
    IF S = {} THEN 0
    ELSE LET x == CHOOSE x \in S : TRUE IN f[x] + SumOver(S \ {x}, f)

\* C7: count_word_syllables is 1 for a word the Hyphenator returns an empty
\* list for and the length of the list otherwise, so at least 1; and
\* n_syllables is the sum of it over the word list, a word that occurs k
\* times counted k times, whatever the Hyphenator returns.
C7_SyllableSum ==
    Ready =>
        /\ n_syllables =
              SumOver(Range(words),
                      [word \in Range(words) |-> Occurrences(word) * ClaimedSyllables(word)])
        /\ (ret.op = "count_word_syllables" =>
              ret.val = ClaimedSyllables(ret.arg) /\ ret.val >= 1)
        /\ (ret.op = "count_syllables" => ret.val = n_syllables)

\* a word occurring 3 times has an empty hyphenation, another has 2
\* syllables, and count_word_syllables has answered 1 for the former
C7_Witness ==
    /\ Ready /\ content = CountDoc(1, 3)
    /\ hyphenation.syllables[<<"b">>] = << >>
    /\ Len(hyphenation.syllables[<<"A">>]) = 2
    /\ n_syllables = 5
    /\ ret.op = "count_word_syllables" /\ ret.arg = <<"b">> /\ ret.val = 1

\* C8: once the analyzer is constructed no method call changes content,
\* words, lang, the Hyphenator or the three counts, and all calls of
\* calc_reading_ease on it have the same outcome.
C8_Frame ==
    /\ [][Ready => fields' = fields]_vars
    /\ [](\A i, j \in 1..Len(ease_log) : ease_log[i] = ease_log[j])

\* calc_reading_ease has been called twice, with a call of another method
\* in between or after, and returned the same score both times
C8_Witness ==
    /\ Ready /\ Len(ease_log) = 2 /\ ease_log[1] = ease_log[2]
    /\ ease_log[1].kind = "int" /\ ret.op = "count_syllables"

\* C9 as stated: k sentences separated by one whitespace character count
\* k - 1 without whitespace after the last and k with one appended.
C9_LastSentenceUncounted ==
    Ready =>
        \A k \in 1..MaxSentences :
            /\ (content \in SentenceDocs(k) => n_sentences = k - 1)
            /\ (content \in SentenceDocsSpaced(k) => n_sentences = k)

\* C10: a constructed analyzer has 0 <= n_sentences <= n_words <=
\* n_syllables; so no words means no sentences, and where the two averages
\* of calc_reading_ease are defined (n_sentences >= 1) both are at least 1.
C10_CountOrder ==
    Ready =>
        /\ 0 <= n_sentences /\ n_sentences <= n_words /\ n_words <= n_syllables
        /\ (n_words = 0 => n_sentences = 0)
        /\ (n_sentences >= 1 =>
              n_words \div n_sentences >= 1 /\ n_syllables \div n_words >= 1)

\* two sentences of one word each have been counted
C10_Witness ==
    Ready /\ n_sentences = 2 /\ n_words = 2 /\ n_syllables >= 2

====
